---------------------------- MODULE Spec2Model ----------------------------
(***************************************************************************)
(* Book review API (FastAPI + SQLAlchemy): users register and log in,     *)
(* authenticated users create and update sentiment-tagged reviews of      *)
(* seeded books.                                                           *)
(*                                                                         *)
(* The database is three tables (sets of rows).  A request is a process:  *)
(* each of its steps is one database round trip of its handler, so that   *)
(* requests interleave between their reads and their commit exactly as    *)
(* worker threads do.  Every statement is evaluated on the committed      *)
(* rows (READ COMMITTED); the UNIQUE constraints of models.py are checked *)
(* by the database at commit.                                              *)
(*                                                                         *)
(* Time is counted in minutes.  A text is a fragment followed by `pad`    *)
(* copies of the letter "A", so that texts of 1001 or 5001 characters     *)
(* stay small values.                                                      *)
(***************************************************************************)
EXTENDS Integers, Sequences, FiniteSets, TLC

VARIABLES
    users,      \* table "users":   rows [id, username, email, password_hash]
    books,      \* table "books":   rows [id, title, author]
    reviews,    \* table "reviews": rows [id, user_id, book_id, review_text, sentiment, created_at]
    now,        \* datetime.utcnow(), in minutes
    req         \* the requests: req[r] is request r's position, inputs, locals and response

vars == <<users, books, reviews, now, req>>

-----------------------------------------------------------------------------
(* Bounds of the model *)

\* number of requests of one run (each request id is used once)
MaxRequests == 3

\* the clock stops here
MaxTime == 3001

-----------------------------------------------------------------------------
(* Python values *)

None == "None"

\* str.lower() on one character
LowerChar(c) ==
    CASE c = "A" -> "a" [] c = "B" -> "b" [] c = "C" -> "c" [] c = "D" -> "d"
      [] c = "E" -> "e" [] c = "F" -> "f" [] c = "G" -> "g" [] c = "H" -> "h"
      [] c = "I" -> "i" [] c = "J" -> "j" [] c = "K" -> "k" [] c = "L" -> "l"
      [] c = "M" -> "m" [] c = "N" -> "n" [] c = "O" -> "o" [] c = "P" -> "p"
      [] c = "Q" -> "q" [] c = "R" -> "r" [] c = "S" -> "s" [] c = "T" -> "t"
      [] c = "U" -> "u" [] c = "V" -> "v" [] c = "W" -> "w" [] c = "X" -> "x"
      [] c = "Y" -> "y" [] c = "Z" -> "z" [] OTHER -> c

RECURSIVE LowerStr(_)
LowerStr(s) ==
    IF Len(s) = 0 THEN ""
    ELSE LowerChar(SubSeq(s, 1, 1)) \o LowerStr(SubSeq(s, 2, Len(s)))

\* `x in s` on strings
StrContains(x, s) ==
    \E i \in 1..(Len(s) - Len(x) + 1) : SubSeq(s, i, i + Len(x) - 1) = x

\* A text: `frag` followed by `pad` letters "A".
Text(frag, pad) == [frag |-> frag, pad |-> pad]

\* len(text)
TextLen(text) == Len(text.frag) + text.pad

\* text.lower(): the padding becomes letters "a"
TextLower(text) == [frag |-> LowerStr(text.frag), pad |-> text.pad]

\* `x in text` for a pattern x that neither holds nor ends with the padding
\* letter run: it lies in the fragment.
TextContains(x, text) == StrContains(x, text.frag)

-----------------------------------------------------------------------------
(* config.py *)

SECRET_KEY == "SECRET_KEY"

ACCESS_TOKEN_EXPIRE_MINUTES == 3000


-----------------------------------------------------------------------------
(* HTTP responses *)

Response(status, detail, body) == [status |-> status, detail |-> detail, body |-> body]

\* no body (JSON null)
NoBody == [null |-> TRUE]

NoResponse == Response(0, "", NoBody)

\* raise HTTPException(status_code, detail)
HTTPException(status, detail) == Response(status, detail, NoBody)

\* An exception no handler catches: the server answers 500.
InternalServerError == Response(500, "Internal Server Error", NoBody)

\* FastAPI's answer to a body its schema rejects.
RequestValidationError == Response(422, "Unprocessable Entity", NoBody)

-----------------------------------------------------------------------------
(* app/security.py *)

\* A bearer token.  `wf`: it parses as a JWT; `key`: the key its signature
\* verifies under; `sub`, `exp`: its claims.
Token(key, sub, exp) == [hdr |-> TRUE, wf |-> TRUE, key |-> key, sub |-> sub, exp |-> exp]

\* `Authorization: Bearer <not a JWT>`
MalformedToken == [hdr |-> TRUE, wf |-> FALSE, key |-> None, sub |-> None, exp |-> 0]

\* no Authorization header
NoHeader == [hdr |-> FALSE, wf |-> FALSE, key |-> None, sub |-> None, exp |-> 0]

\* jwt.encode(payload, key, algorithm = ALGORITHM)
jwt_encode(payload, key) == Token(key, payload.sub, payload.exp)

\* jwt.decode mutated: called with options = {"verify_exp": False}
jwt_decodes_NoExpiry(token, key, t) == token.wf /\ token.key = key

\* jwt.decode(token, key, algorithms = [ALGORITHM]) returns the payload:
\* the token parses, its signature verifies under key, and it has not
\* expired (PyJWT 2: expired when exp <= now).
jwt_decodes(token, key, t) == token.wf /\ token.key = key /\ ~(token.exp <= t)

create_access_token(data, t) ==
    jwt_encode([sub |-> data.sub, exp |-> t + ACCESS_TOKEN_EXPIRE_MINUTES], SECRET_KEY)

\* bcrypt: the hash holds its salt; the digest is one-way in (password, salt)
Bcrypt(password, salt) == [salt |-> salt, digest |-> <<password, salt>>]

get_password_hash(password, salt) == Bcrypt(password, salt)

verify_password(plain_password, hashed_password) ==
    Bcrypt(plain_password, hashed_password.salt) = hashed_password

\* db.query(User).filter(User.email == email).first(), as a set of rows
UserByEmail(email) == {u \in users : u.email = email}

\* The try block of get_current_user: the user it returns, or what it raises.
CurrentUserTry(token, t) ==
    IF ~jwt_decodes(token, SECRET_KEY, t)
    THEN [raised |-> TRUE, user |-> 0, detail |-> "jwt.InvalidTokenError"]
    ELSE IF token.sub = None
    THEN [raised |-> TRUE, user |-> 0, detail |-> "Invalid authentication token"]
    ELSE IF UserByEmail(token.sub) = {}
    THEN [raised |-> TRUE, user |-> 0, detail |-> "user not found"]
    ELSE [raised |-> FALSE, user |-> (CHOOSE u \in UserByEmail(token.sub) : TRUE).id,
          detail |-> ""]

\* get_current_user mutated: without the bare except, what the try block
\* raises reaches the client.
get_current_user_NoExcept(token, t) ==
    LET got == CurrentUserTry(token, t) IN
    IF ~token.hdr
    THEN [ok |-> FALSE, user |-> 0, response |-> HTTPException(401, "Not authenticated")]
    ELSE IF got.raised
    THEN [ok |-> FALSE, user |-> 0, response |-> HTTPException(401, got.detail)]
    ELSE [ok |-> TRUE, user |-> got.user, response |-> NoResponse]

\* get_current_user with its dependency oauth2_scheme: the bare except
\* turns whatever the try block raised into the one 401.
get_current_user(token, t) ==
    LET got == CurrentUserTry(token, t) IN
    IF ~token.hdr
    THEN [ok |-> FALSE, user |-> 0, response |-> HTTPException(401, "Not authenticated")]
    ELSE IF got.raised
    THEN [ok |-> FALSE, user |-> 0,
          response |-> HTTPException(401, "Invalid authentication token")]
    ELSE [ok |-> TRUE, user |-> got.user, response |-> NoResponse]

-----------------------------------------------------------------------------
(* ml/sentiment_analysis.py *)

\* sentiment_model(review_text)[0]["label"]: the classifier is external; this
\* one labels by keyword and has a third label.
sentiment_model(text) ==
    IF StrContains("great", LowerStr(text.frag)) THEN "POSITIVE"
    ELSE IF StrContains("dull", LowerStr(text.frag)) THEN "NEGATIVE"
    ELSE "LABEL_2"

\* analyze_sentiment mutated: the label is returned as it is
analyze_sentiment_Raw(review_text) == LowerStr(sentiment_model(review_text))

analyze_sentiment(review_text) ==
    LET label == LowerStr(sentiment_model(review_text)) IN
    IF label = "positive" THEN "positive"
    ELSE IF label = "negative" THEN "negative"
    ELSE "neutral"

-----------------------------------------------------------------------------
(* models/models.py: the tables and their constraints *)

User(id, username, email, password_hash) ==
    [id |-> id, username |-> username, email |-> email, password_hash |-> password_hash]

Book(id, title, author) == [id |-> id, title |-> title, author |-> author]

Review(id, user_id, book_id, review_text, sentiment, created_at) ==
    [id |-> id, user_id |-> user_id, book_id |-> book_id, review_text |-> review_text,
     sentiment |-> sentiment, created_at |-> created_at]

\* the next value of a table's autoincrement primary key
NextId(table) ==
    IF table = {} THEN 1
    ELSE 1 + (CHOOSE m \in {x.id : x \in table} : \A x \in table : x.id <= m)

\* the users table mutated: only users.email is unique
UserInsertAllowed_EmailOnly(row) == \A u \in users : u.email # row.email

\* users.username and users.email are unique
UserInsertAllowed(row) ==
    \A u \in users : u.username # row.username /\ u.email # row.email

\* UniqueConstraint mutated: the table has no constraint
ReviewInsertAllowed_NoConstraint(row) == TRUE

\* UniqueConstraint("user_id", "book_id", name="user_book_review_uc")
ReviewInsertAllowed(row) ==
    \A x \in reviews : ~(x.user_id = row.user_id /\ x.book_id = row.book_id)

\* db.query(Book).filter(title == .., author == ..).first(), as a set of rows
BookByTitleAuthor(title, author) ==
    {b \in books : b.title = title /\ b.author = author}

\* db.query(Review).filter(user_id == .., book_id == ..).first(), as a set of rows
ReviewByUserBook(user_id, book_id) ==
    {x \in reviews : x.user_id = user_id /\ x.book_id = book_id}


-----------------------------------------------------------------------------
(* schemas/schemas.py *)

\* Field(..., max_length=5000)
ReviewTextMaxLength == 5000

\* ReviewBase (ReviewCreate, ReviewUpdate) accepts the body
ReviewBaseValid(body) == TextLen(body.review_text) <= ReviewTextMaxLength

\* EmailStr accepts the string
EmailStrValid(email) ==
    \E i \in 2..(Len(email) - 1) : SubSeq(email, i, i) = "@"

\* ReviewUpdate mutated: the object has a method lower
ReviewUpdateAttrs_WithLower == {"id", "book_title", "book_author", "review_text", "lower"}

\* the attributes of a ReviewUpdate object
ReviewUpdateAttrs == {"id", "book_title", "book_author", "review_text"}

ReviewResponse(id, user_id, book_id, title, author, review_text, sentiment, created_at) ==
    [id |-> id, user_id |-> user_id, book_id |-> book_id, book_title |-> title,
     book_author |-> author, review_text |-> review_text, sentiment |-> sentiment,
     created_at |-> created_at]

UserResponse(user) == [id |-> user.id, username |-> user.username, email |-> user.email]

-----------------------------------------------------------------------------
(* The requests *)

Requests == 1..MaxRequests

Request(op, pc, token, body, user, book, response) ==
    [op |-> op, pc |-> pc, token |-> token, body |-> body, user |-> user, book |-> book,
     response |-> response]

IdleRequest == Request("none", "idle", NoHeader, NoBody, 0, 0, NoResponse)

\* request r ends with this response
Done(r, op, token, body, user, book, response) ==
    req' = [req EXCEPT ![r] = Request(op, "done", token, body, user, book, response)]

-----------------------------------------------------------------------------
(* routes/reviews.py: create_review *)

\* line 265
CreateReviewTooLong(review_data) == TextLen(review_data.review_text) > 1000

\* line 262
CreateReviewInvalid(review_data) ==
    \/ \E x \in {"'); drop table", "delete from", "--"} :
          TextContains(x, TextLower(review_data.review_text))
    \/ Len(review_data.book_title) = 0
    \/ Len(review_data.book_author) = 0

\* lines 276-282 mutated: the handler does not look for an existing review
CreateReviewExisting_None(user_id, book_id) == {}

\* lines 276-279 mutated: the query filters on the user alone
CreateReviewExisting_UserOnly(user_id, book_id) == {x \in reviews : x.user_id = user_id}

\* lines 276-279
CreateReviewExisting(user_id, book_id) == ReviewByUserBook(user_id, book_id)

\* Lines 262-282, the checks before the insert: the response they raise, or
\* the book they resolve.
CreateReviewChecks(review_data, user_id) ==
    LET book == BookByTitleAuthor(review_data.book_title, review_data.book_author) IN
    IF CreateReviewInvalid(review_data)
    THEN [ok |-> FALSE, book |-> 0, response |-> HTTPException(400, "Invalid input detected.")]
    ELSE IF CreateReviewTooLong(review_data)
    THEN [ok |-> FALSE, book |-> 0,
          response |-> HTTPException(400, "Review text exceeds 5000 characters")]
    ELSE IF book = {}
    THEN [ok |-> FALSE, book |-> 0, response |-> HTTPException(404, "Book not found")]
    ELSE LET b == CHOOSE b \in book : TRUE IN
         IF CreateReviewExisting(user_id, b.id) # {}
         THEN [ok |-> FALSE, book |-> b.id,
               response |-> HTTPException(400, "You have already reviewed this book.")]
         ELSE [ok |-> TRUE, book |-> b.id, response |-> NoResponse]

\* The request arrives: FastAPI resolves get_current_user, then validates
\* the body against ReviewCreate.
CreateReviewStart(r, token, review_data) ==
    /\ req[r].pc = "idle"
    /\ LET auth == get_current_user(token, now) IN
       IF ~auth.ok
       THEN Done(r, "create_review", token, review_data, 0, 0, auth.response)
       ELSE IF ~ReviewBaseValid(review_data)
       THEN Done(r, "create_review", token, review_data, auth.user, 0,
                 RequestValidationError)
       ELSE req' = [req EXCEPT ![r] = Request("create_review", "handler", token,
                                              review_data, auth.user, 0, NoResponse)]
    /\ UNCHANGED <<users, books, reviews, now>>

\* Lines 262-282 mutated: the row is added and flushed before the checks,
\* and a failed check does not roll it back.
CreateReviewCheck_AddFirst(r) ==
    /\ req[r].op = "create_review" /\ req[r].pc = "handler"
    /\ LET q == req[r]
           chk == CreateReviewChecks(q.body, q.user) IN
       IF ~chk.ok
       THEN /\ Done(r, q.op, q.token, q.body, q.user, chk.book, chk.response)
            /\ reviews' = reviews \cup
                   {Review(NextId(reviews), q.user, chk.book, q.body.review_text, "", now)}
       ELSE /\ req' = [req EXCEPT ![r].pc = "commit", ![r].book = chk.book]
            /\ reviews' = reviews
    /\ UNCHANGED <<users, books, now>>

\* Lines 262-282: validation, the book query and the existing-review query.
CreateReviewCheck(r) ==
    /\ req[r].op = "create_review" /\ req[r].pc = "handler"
    /\ LET q == req[r]
           chk == CreateReviewChecks(q.body, q.user) IN
       IF ~chk.ok
       THEN Done(r, q.op, q.token, q.body, q.user, chk.book, chk.response)
       ELSE req' = [req EXCEPT ![r].pc = "commit", ![r].book = chk.book]
    /\ UNCHANGED <<users, books, reviews, now>>

\* Lines 284-306: classify, insert, commit.  The database raises
\* IntegrityError when the row breaks the unique constraint; the handler
\* does not catch it.
CreateReviewCommit(r) ==
    /\ req[r].op = "create_review" /\ req[r].pc = "commit"
    /\ LET q == req[r]
           predicted_sentiment == analyze_sentiment(q.body.review_text)
           new_review == Review(NextId(reviews), q.user, q.book, q.body.review_text,
                                predicted_sentiment, now) IN
       IF ReviewInsertAllowed(new_review)
       THEN /\ reviews' = reviews \cup {new_review}
            /\ Done(r, q.op, q.token, q.body, q.user, q.book,
                    Response(200, "",
                        ReviewResponse(new_review.id, new_review.user_id, q.book,
                            q.body.book_title, q.body.book_author,
                            new_review.review_text, new_review.sentiment,
                            new_review.created_at)))
       ELSE /\ reviews' = reviews
            /\ Done(r, q.op, q.token, q.body, q.user, q.book, InternalServerError)
    /\ UNCHANGED <<users, books, now>>

-----------------------------------------------------------------------------
(* routes/reviews.py: update_review *)

\* Lines 345-376, run on the committed rows: the rows after the update and
\* the response.
UpdateReviewBody(review_data) ==
    LET review == {x \in reviews : x.id = review_data.id}
        book == BookByTitleAuthor(review_data.book_title, review_data.book_author) IN
    IF review = {}
    THEN [reviews |-> reviews, book |-> 0,
          response |-> HTTPException(404, "Review not found")]
    ELSE IF book = {}
    THEN [reviews |-> reviews, book |-> 0,
          response |-> HTTPException(404, "Book not found")]
    ELSE LET old == CHOOSE x \in review : TRUE
             b == CHOOSE b \in book : TRUE
             new == [old EXCEPT !.book_id = b.id,
                                !.review_text = review_data.review_text,
                                !.sentiment = analyze_sentiment(review_data.review_text)]
             others == reviews \ {old} IN
         IF \E x \in others : x.user_id = new.user_id /\ x.book_id = new.book_id
         THEN [reviews |-> reviews, book |-> b.id, response |-> InternalServerError]
         ELSE [reviews |-> others \cup {new}, book |-> b.id,
               response |-> Response(200, "",
                   ReviewResponse(review_data.id, new.user_id, b.id,
                       review_data.book_title, review_data.book_author,
                       review_data.review_text, new.sentiment, new.created_at))]

\* Line 342 calls review_data.lower(): a ReviewUpdate has no such attribute,
\* Python raises AttributeError and nothing catches it.
UpdateReview(r, token, review_data) ==
    /\ req[r].pc = "idle"
    /\ LET auth == get_current_user(token, now) IN
       IF ~auth.ok
       THEN /\ Done(r, "update_review", token, review_data, 0, 0, auth.response)
            /\ reviews' = reviews
       ELSE IF ~ReviewBaseValid(review_data)
       THEN /\ Done(r, "update_review", token, review_data, auth.user, 0,
                    RequestValidationError)
            /\ reviews' = reviews
       ELSE IF "lower" \notin ReviewUpdateAttrs
       THEN /\ Done(r, "update_review", token, review_data, auth.user, 0,
                    InternalServerError)
            /\ reviews' = reviews
       ELSE LET upd == UpdateReviewBody(review_data) IN
            /\ Done(r, "update_review", token, review_data, auth.user, upd.book,
                    upd.response)
            /\ reviews' = upd.reviews
    /\ UNCHANGED <<users, books, now>>


-----------------------------------------------------------------------------
(* routes/reviews.py: the read endpoints *)

\* a <= b on pairs, first component first
LexLeq(a, b) == a[1] < b[1] \/ (a[1] = b[1] /\ a[2] <= b[2])

\* The orders in which a query with ORDER BY key, or a stable sort by key of
\* rows that come in no specified order, can return the rows of S: every
\* arrangement that is sorted by key.  Rows of equal key come in any order.
RECURSIVE SortedSeqs(_, _)
SortedSeqs(S, key) ==
    IF S = {} THEN {<<>>}
    ELSE UNION {{<<x>> \o t : t \in SortedSeqs(S \ {x}, key)} :
                    x \in {y \in S : \A z \in S : LexLeq(key[y], key[z])}}

\* seq[:count]
SliceTo(seq, count) ==
    IF count >= 0
    THEN SubSeq(seq, 1, IF count < Len(seq) THEN count ELSE Len(seq))
    ELSE SubSeq(seq, 1, IF Len(seq) + count > 0 THEN Len(seq) + count ELSE 0)

\* a list as a response body
ListBody(seq) == [list |-> seq]

\* lines 78-82: the CASE of the ORDER BY
SentimentPriority(sentiment) ==
    IF sentiment = "positive" THEN 1
    ELSE IF sentiment = "negative" THEN 2
    ELSE 3

\* lines 72-75: reviews joined with their book
ReviewBookRows ==
    {[id |-> x.id, user_id |-> x.user_id, book_id |-> x.book_id,
      review_text |-> x.review_text, sentiment |-> x.sentiment,
      created_at |-> x.created_at, book_title |-> b.title, book_author |-> b.author] :
        <<x, b>> \in {p \in reviews \X books : p[2].id = p[1].book_id}}

\* lines 77-86: query.order_by(case(..), created_at.desc()).all()
ReviewBookRowsOrdered ==
    SortedSeqs(ReviewBookRows,
               [row \in ReviewBookRows |->
                   <<SentimentPriority(row.sentiment), 0 - row.created_at>>])

ReviewResponseGrouped(row) ==
    [id |-> row.id, user_id |-> row.user_id, review_text |-> row.review_text,
     sentiment |-> row.sentiment, created_at |-> row.created_at]

\* the keys of book_reviews, in insertion order: the book ids in the order
\* in which the rows first show them
RECURSIVE FirstSeen(_)
FirstSeen(rows) ==
    IF Len(rows) = 0 THEN <<>>
    ELSE LET front == FirstSeen(SubSeq(rows, 1, Len(rows) - 1))
             id == rows[Len(rows)].book_id IN
         IF \E i \in 1..Len(front) : front[i] = id THEN front ELSE Append(front, id)

\* lines 92-116 mutated: each group holds all the rows
GroupReviews_All(rows) ==
    LET Group(book_id) ==
            LET last == CHOOSE i \in 1..Len(rows) :
                            /\ rows[i].book_id = book_id
                            /\ \A j \in (i + 1)..Len(rows) : rows[j].book_id # book_id IN
            [book_id |-> book_id,
             book_title |-> rows[last].book_title,
             book_author |-> rows[last].book_author,
             reviews |-> [i \in 1..Len(rows) |-> ReviewResponseGrouped(rows[i])]]
        seen == FirstSeen(rows)
    IN  [g \in 1..Len(seen) |-> Group(seen[g])]

\* lines 92-116: group the rows by book_id.  book_details[book_id] is
\* assigned at every row and so holds the last row's title and author.
GroupReviews(rows) ==
    LET Group(book_id) ==
            LET OfBook(row) == row.book_id = book_id
                of_book == SelectSeq(rows, OfBook)
                last == CHOOSE i \in 1..Len(rows) :
                            /\ rows[i].book_id = book_id
                            /\ \A j \in (i + 1)..Len(rows) : rows[j].book_id # book_id IN
            [book_id |-> book_id,
             book_title |-> rows[last].book_title,
             book_author |-> rows[last].book_author,
             reviews |-> [i \in 1..Len(of_book) |-> ReviewResponseGrouped(of_book[i])]]
        seen == FirstSeen(rows)
    IN  [g \in 1..Len(seen) |-> Group(seen[g])]

\* get_reviews ordered by created_at alone (lines 78-82 mutated away)
get_reviews_ByTime ==
    LET rows == SortedSeqs(ReviewBookRows,
                    [row \in ReviewBookRows |-> <<0, 0 - row.created_at>>]) IN
    IF ReviewBookRows = {}
    THEN {HTTPException(404, "No reviews found in the system")}
    ELSE {Response(200, "", ListBody(GroupReviews(reviews_))) : reviews_ \in rows}

\* get_reviews(sort_by, db): the responses it can give (sort_by is not read)
get_reviews ==
    IF ReviewBookRows = {}
    THEN {HTTPException(404, "No reviews found in the system")}
    ELSE {Response(200, "", ListBody(GroupReviews(reviews_))) :
              reviews_ \in ReviewBookRowsOrdered}

GetReviews(r) ==
    /\ req[r].pc = "idle"
    /\ \E response \in get_reviews :
          Done(r, "get_reviews", NoHeader, NoBody, 0, 0, response)
    /\ UNCHANGED <<users, books, reviews, now>>

\* line 147 mutated: the filter is gone
ReviewsOfBook_All(book_id) == reviews

\* line 147: db.query(Review).filter(Review.book_id == book_id)
ReviewsOfBook(book_id) == {x \in reviews : x.book_id = book_id}

\* get_reviews_by_book(book_id, db): the responses it can give; the query
\* has no ORDER BY
get_reviews_by_book(book_id) ==
    LET found == ReviewsOfBook(book_id) IN
    IF found = {}
    THEN {HTTPException(404, "No reviews found for this book")}
    ELSE {Response(200, "", ListBody([i \in 1..Len(reviews_) |->
                                         ReviewResponseGrouped(reviews_[i])])) :
              reviews_ \in SortedSeqs(found, [x \in found |-> <<0, 0>>])}

GetReviewsByBook(r, book_id) ==
    /\ req[r].pc = "idle"
    /\ \E response \in get_reviews_by_book(book_id) :
          Done(r, "get_reviews_by_book", NoHeader, [book_id |-> book_id], 0, 0, response)
    /\ UNCHANGED <<users, books, reviews, now>>

\* timedelta(weeks=1), in minutes
Week == 10080

BookResponse(id, title, author, review_count) ==
    [id |-> id, title |-> title, author |-> author, review_count |-> review_count]

\* lines 195-198 and 209: the review is positive and not older than a week
RecentPositive(review, one_week_ago) ==
    review.created_at >= one_week_ago /\ review.sentiment = "positive"

\* line 218 mutated: no sort
TrendingOrders_Unsorted(counted, positive_count) ==
    SortedSeqs(counted, [b \in counted |-> <<0, 0>>])

\* line 218: sorted(.., key = count, reverse = True) of the dict's keys; the
\* sort is stable and the books query has no ORDER BY
TrendingOrders(counted, positive_count) ==
    SortedSeqs(counted, [b \in counted |-> <<0 - positive_count[b], 0>>])

\* get_trending_books(count, db) at time t: the responses it can give
get_trending_books(count, t) ==
    LET one_week_ago == t - Week
        recent_reviews == {x.book_id : x \in {y \in reviews : RecentPositive(y, one_week_ago)}}
        books_ == {b \in books : b.id \in recent_reviews}
        positive_count == [b \in books_ |->
            Cardinality({x \in reviews : /\ x.book_id = b.id
                                         /\ RecentPositive(x, one_week_ago)})]
        book_positive_counts == {b \in books_ : positive_count[b] > 0}
        Entry(book) == BookResponse(book.id, book.title, book.author, positive_count[book])
    IN  IF books_ = {}
        THEN {HTTPException(404, "No books in the system")}
        ELSE IF book_positive_counts = {}
        THEN {Response(200, "", ListBody(<<>>))}
        ELSE {Response(200, "", ListBody([i \in 1..Len(SliceTo(trending_books, count)) |->
                                             Entry(trending_books[i])])) :
                  trending_books \in TrendingOrders(book_positive_counts, positive_count)}

GetTrendingBooks(r, count) ==
    /\ req[r].pc = "idle"
    /\ \E response \in get_trending_books(count, now) :
          Done(r, "get_trending_books", NoHeader, [count |-> count], 0, 0, response)
    /\ UNCHANGED <<users, books, reviews, now>>

-----------------------------------------------------------------------------
(* routes/auth.py *)

\* line 32 mutated: the handler does not look for the email
RegisterExisting_None(email) == {}

\* line 32
RegisterExisting(email) == UserByEmail(email)

\* Lines 32-34: the request arrives, FastAPI validates the body against
\* UserCreate, the handler looks for a user with the email.
RegisterStart(r, user_data) ==
    /\ req[r].pc = "idle"
    /\ IF ~EmailStrValid(user_data.email)
       THEN Done(r, "register", NoHeader, user_data, 0, 0, RequestValidationError)
       ELSE IF RegisterExisting(user_data.email) # {}
       THEN Done(r, "register", NoHeader, user_data, 0, 0,
                 HTTPException(400, "A user already exists with this email"))
       ELSE req' = [req EXCEPT ![r] = Request("register", "commit", NoHeader, user_data,
                                              0, 0, NoResponse)]
    /\ UNCHANGED <<users, books, reviews, now>>

\* Lines 36-41: hash the password (bcrypt draws the salt), insert, commit.
\* The database raises IntegrityError when the username or the email is
\* taken; the handler does not catch it.
RegisterCommit(r, salt) ==
    /\ req[r].op = "register" /\ req[r].pc = "commit"
    /\ LET q == req[r]
           hashed_password == get_password_hash(q.body.password, salt)
           new_user == User(NextId(users), q.body.username, q.body.email,
                            hashed_password) IN
       IF UserInsertAllowed(new_user)
       THEN /\ users' = users \cup {new_user}
            /\ Done(r, q.op, q.token, q.body, new_user.id, 0,
                    Response(200, "", UserResponse(new_user)))
       ELSE /\ users' = users
            /\ Done(r, q.op, q.token, q.body, 0, 0, InternalServerError)
    /\ UNCHANGED <<books, reviews, now>>

\* line 62 mutated: the password is not verified
LoginRejected_EmailOnly(user, password) == user = {}

\* line 62
LoginRejected(user, password) ==
    \/ user = {}
    \/ ~verify_password(password, (CHOOSE u \in user : TRUE).password_hash)

\* Lines 61-66.
Login(r, login_data) ==
    /\ req[r].pc = "idle"
    /\ LET user == UserByEmail(login_data.email) IN
       IF ~EmailStrValid(login_data.email)
       THEN Done(r, "login", NoHeader, login_data, 0, 0, RequestValidationError)
       ELSE IF LoginRejected(user, login_data.password)
       THEN Done(r, "login", NoHeader, login_data, 0, 0,
                 HTTPException(401, "Invalid credentials"))
       ELSE LET u == CHOOSE u \in user : TRUE
                access_token == create_access_token([sub |-> u.email], now) IN
            Done(r, "login", NoHeader, login_data, u.id, 0,
                 Response(200, "", [access_token |-> access_token,
                                    token_type |-> "bearer"]))
    /\ UNCHANGED <<users, books, reviews, now>>

-----------------------------------------------------------------------------
(* The clock *)

TickSteps ==
    {ACCESS_TOKEN_EXPIRE_MINUTES - 1, ACCESS_TOKEN_EXPIRE_MINUTES,
     ACCESS_TOKEN_EXPIRE_MINUTES + 1}

Tick(d) ==
    /\ now + d <= MaxTime
    /\ now' = now + d
    /\ UNCHANGED <<users, books, reviews, req>>

-----------------------------------------------------------------------------
(* The seeded database (seed_data.py, tests/test-api.py setup_test_data) *)

SeedUsers ==
    {User(1, "alice", "alice@example.com", get_password_hash("password123", "salt0")),
     User(2, "bob", "bob@example.com", get_password_hash("securepass", "salt0"))}

SeedBooks ==
    {Book(1, "The Great Gatsby", "F. Scott Fitzgerald"),
     Book(2, "1984", "George Orwell")}

Init ==
    /\ users = SeedUsers
    /\ books = SeedBooks
    /\ reviews = {}
    /\ now = 0
    /\ req = [r \in Requests |-> IdleRequest]


-----------------------------------------------------------------------------
(* Inputs *)

\* tests/test-api.py create_test_access_token, called at time t
create_test_access_token(email, t, exp) ==
    jwt_encode([sub |-> email, exp |-> t + exp], SECRET_KEY)

AliceToken == create_test_access_token("alice@example.com", 0, ACCESS_TOKEN_EXPIRE_MINUTES)

BobToken == create_test_access_token("bob@example.com", 0, ACCESS_TOKEN_EXPIRE_MINUTES)

\* the tokens get_current_user rejects: not a JWT, signed with another key
\* (tampered), expired, without a subject, naming no registered user
RejectedTokens ==
    {MalformedToken,
     Token("attacker key", "alice@example.com", 2 * ACCESS_TOKEN_EXPIRE_MINUTES),
     create_test_access_token("alice@example.com", 0, 0),
     create_test_access_token(None, 0, 2 * ACCESS_TOKEN_EXPIRE_MINUTES),
     create_test_access_token("mallory@example.com", 0, 2 * ACCESS_TOKEN_EXPIRE_MINUTES)}

ReviewCreate(book_title, book_author, review_text) ==
    [book_title |-> book_title, book_author |-> book_author, review_text |-> review_text]

ReviewUpdate(id, book_title, book_author, review_text) ==
    [id |-> id, book_title |-> book_title, book_author |-> book_author,
     review_text |-> review_text]

\* (title, author) pairs: the two books, a pair of no book
TitleAuthors ==
    {<<"The Great Gatsby", "F. Scott Fitzgerald">>, <<"1984", "George Orwell">>,
     <<"The Great Gatsby", "George Orwell">>}

\* Spec: the two users, the two books, one text
SpecTokens == {AliceToken, BobToken, MalformedToken}

SpecCreates ==
    {ReviewCreate(b.title, b.author, Text("Great book!", 0)) : b \in SeedBooks}

SpecUpdates == {ReviewUpdate(1, "1984", "George Orwell", Text("Quite dull.", 0))}

-----------------------------------------------------------------------------
(* Spec: create_review and update_review requests of the seeded users,    *)
(* interleaved between their database round trips                          *)

Next ==
    \E r \in Requests :
        \/ \E token \in SpecTokens, review_data \in SpecCreates :
              CreateReviewStart(r, token, review_data)
        \/ CreateReviewCheck(r)
        \/ CreateReviewCommit(r)
        \/ \E token \in SpecTokens, review_data \in SpecUpdates :
              UpdateReview(r, token, review_data)

Spec == Init /\ [][Next]_vars


-----------------------------------------------------------------------------
(* SpecAuth: register, login and create_review requests, interleaved,     *)
(* while the clock advances.  A create_review request carries a token a   *)
(* login has returned, or a rejected one.                                  *)

\* the tokens login has returned so far
IssuedTokens ==
    {req[r].response.body.access_token :
        r \in {x \in Requests : /\ req[x].op = "login"
                                /\ req[x].response.status = 200}}

UserCreate(username, email, password) ==
    [username |-> username, email |-> email, password |-> password]

UserLogin(email, password) == [email |-> email, password |-> password]

AuthRegisters ==
    {UserCreate(username, email, "hunter2") :
        username \in {"alice", "carol"},
        email \in {"alice@example.com", "carol@example.com", "carol"}}

AuthLogins ==
    {UserLogin(email, password) :
        email \in {"alice@example.com", "carol@example.com", "carol"},
        password \in {"password123", "hunter2"}}

Salts == {"salt1", "salt2"}

AuthCreates == {ReviewCreate("1984", "George Orwell", Text("Great book!", 0))}

NextAuth ==
    \/ \E r \in Requests :
        \/ \E user_data \in AuthRegisters : RegisterStart(r, user_data)
        \/ \E salt \in Salts : RegisterCommit(r, salt)
        \/ \E login_data \in AuthLogins : Login(r, login_data)
        \/ \E token \in IssuedTokens \cup {MalformedToken}, review_data \in AuthCreates :
              CreateReviewStart(r, token, review_data)
        \/ CreateReviewCheck(r)
        \/ CreateReviewCommit(r)
    \/ \E d \in TickSteps : Tick(d)

SpecAuth == Init /\ [][NextAuth]_vars

-----------------------------------------------------------------------------
(* SpecInput: one create_review request at a time, over every kind of     *)
(* token and body                                                          *)

\* The client has read the response; the request id is used again.
Forget(r) ==
    /\ req[r].pc = "done"
    /\ req' = [req EXCEPT ![r] = IdleRequest]
    /\ UNCHANGED <<users, books, reviews, now>>

InputTokens == {AliceToken, NoHeader} \cup RejectedTokens

InputTitleAuthors ==
    TitleAuthors \cup {<<"", "F. Scott Fitzgerald">>, <<"1984", "">>}

InputFrags ==
    {"", "Great book!", "Quite dull.", "So-so.", "'); DROP TABLE reviews; --",
     "drop table", "DELETE FROM reviews", "a -- b"}

InputPads == {0, 1000, ReviewTextMaxLength}

InputCreates ==
    {ReviewCreate(ta[1], ta[2], Text(frag, pad)) :
        ta \in InputTitleAuthors, frag \in InputFrags, pad \in InputPads}

NextInput ==
    \/ \E token \in InputTokens, review_data \in InputCreates :
          CreateReviewStart(1, token, review_data)
    \/ CreateReviewCheck(1)
    \/ CreateReviewCommit(1)
    \/ Forget(1)

SpecInput == Init /\ [][NextInput]_vars


-----------------------------------------------------------------------------
(* SpecRead: the read endpoints, one request at a time, over the review   *)
(* tables the two users can have written on three books                   *)

\* the largest count asked of get_trending_books
MaxCount == 3

ReadBooks == SeedBooks \cup {Book(3, "To Kill a Mockingbird", "Harper Lee")}

\* the time of the reads; reviews date from more than a week before, from
\* exactly a week before, and from now
ReadNow == Week + 1

ReadOld == ReadNow - Week - 1

ReadEdge == ReadNow - Week

ReadNone == [present |-> FALSE, sentiment |-> "", created_at |-> 0]

ReadKind(sentiment, created_at) ==
    [present |-> TRUE, sentiment |-> sentiment, created_at |-> created_at]

\* what a user can have written on a book
ReadKinds(user_id) ==
    IF user_id = 1
    THEN {ReadNone, ReadKind("positive", ReadNow), ReadKind("positive", ReadOld),
          ReadKind("negative", ReadNow)}
    ELSE {ReadNone, ReadKind("positive", ReadEdge), ReadKind("neutral", ReadNow),
          ReadKind("negative", ReadOld)}

\* a text the classifier gives this sentiment
ReadText(sentiment) ==
    IF sentiment = "positive" THEN Text("Great book!", 0)
    ELSE IF sentiment = "negative" THEN Text("Quite dull.", 0)
    ELSE Text("So-so.", 0)

\* the review tables over the books bs: at most one review per (user, book)
ReadReviewTables(bs) ==
    LET pairs == {u.id : u \in SeedUsers} \X {b.id : b \in bs}
        kinds == {f \in [pairs -> UNION {ReadKinds(u.id) : u \in SeedUsers}] :
                     \A p \in pairs : f[p] \in ReadKinds(p[1])}
    IN  {{Review((p[1] - 1) * Cardinality(ReadBooks) + p[2], p[1], p[2],
                 ReadText(f[p].sentiment), f[p].sentiment, f[p].created_at) :
              p \in {q \in pairs : f[q].present}} : f \in kinds}

InitRead ==
    /\ users = SeedUsers
    /\ books \in {{}, ReadBooks}
    /\ reviews \in ReadReviewTables(books)
    /\ now = ReadNow
    /\ req = [r \in Requests |-> IdleRequest]

ReadCounts == (0 - 1)..MaxCount

ReadBookIds == {b.id : b \in ReadBooks} \cup {NextId(ReadBooks)}

NextRead ==
    \/ GetReviews(1)
    \/ \E book_id \in ReadBookIds : GetReviewsByBook(1, book_id)
    \/ \E count \in ReadCounts : GetTrendingBooks(1, count)
    \/ Forget(1)

SpecRead == InitRead /\ [][NextRead]_vars

-----------------------------------------------------------------------------
(* SpecUpdate: create_review and update_review requests, one at a time,   *)
(* the updates over every kind of token and body                          *)

UpdateTokens == {AliceToken, BobToken, MalformedToken, NoHeader}

\* review ids: those the two users can have created on the two books, and
\* one more
UpdateIds == 1..(Cardinality(SeedUsers) * Cardinality(SeedBooks) + 1)

UpdateFrags == {"", "Quite dull.", "drop table"}

UpdateBodies ==
    {ReviewUpdate(id, ta[1], ta[2], Text(frag, pad)) :
        id \in UpdateIds, ta \in TitleAuthors, frag \in UpdateFrags, pad \in InputPads}

NextUpdate ==
    \/ \E token \in {AliceToken, BobToken}, review_data \in SpecCreates :
          CreateReviewStart(1, token, review_data)
    \/ CreateReviewCheck(1)
    \/ CreateReviewCommit(1)
    \/ \E token \in UpdateTokens, review_data \in UpdateBodies :
          UpdateReview(1, token, review_data)
    \/ Forget(1)

SpecUpdate == Init /\ [][NextUpdate]_vars

-----------------------------------------------------------------------------
(* Properties *)

\* request r is a create_review request that has its response
CreateDone(r) == req[r].op = "create_review" /\ req[r].pc = "done"

\* request r is a create_review request past the checks of lines 262-282
CreatePastCheck(r) ==
    /\ req[r].op = "create_review"
    /\ \/ req[r].pc = "commit"
       \/ req[r].pc = "done" /\ req[r].response.status \in {200, 500}

\* requests r and t are create_review requests of one user for one
\* (title, author) pair
SameUserBook(r, t) ==
    /\ req[r].op = "create_review" /\ req[t].op = "create_review"
    /\ req[r].user # 0 /\ req[r].user = req[t].user
    /\ req[r].body.book_title = req[t].body.book_title
    /\ req[r].body.book_author = req[t].body.book_author

\* C1: in every reachable state no two stored reviews have the same
\* (user_id, book_id) pair.
C1_UniqueUserBook ==
    \A x, y \in reviews :
        (x.user_id = y.user_id /\ x.book_id = y.book_id) => x = y

\* C1 witness: two create_review requests of one user for one book have
\* both run past the existing-review check, one has stored its review and
\* the other's insert was refused, and an update_review request has run.
C1_Witness ==
    \E r, t, u \in Requests :
        /\ r # t /\ SameUserBook(r, t)
        /\ CreateDone(r) /\ req[r].response.status = 200
        /\ CreateDone(t) /\ req[t].response.status = 500
        /\ req[u].op = "update_review" /\ req[u].pc = "done" /\ req[u].user # 0
        /\ Cardinality(ReviewByUserBook(req[r].user, req[r].book)) = 1

\* C2: of two create_review requests for the same (user, book) pair that
\* both pass the existing-review check before either commits, exactly one
\* gets 200 and the other gets 400.
C2_RaceOneConflict ==
    \A r, t \in Requests :
        (/\ r # t /\ SameUserBook(r, t)
         /\ CreatePastCheck(r) /\ CreatePastCheck(t)
         /\ CreateDone(r) /\ CreateDone(t))
        => {req[r].response.status, req[t].response.status} = {200, 400}

\* the step is request r's existing-review check (lines 262-282)
CheckStep(r) ==
    /\ req[r].op = "create_review" /\ req[r].pc = "handler"
    /\ req'[r].pc # "handler"

\* the step is request r's insert and commit (lines 284-296)
CommitStep(r) ==
    /\ req[r].op = "create_review" /\ req[r].pc = "commit"
    /\ req'[r].pc = "done"

\* C3: if the user already has a stored review of the book, a further
\* create_review by that user for that book fails with 400 and the number of
\* stored reviews of the pair remains 1.
C3_DuplicateConflict ==
    [][\A r \in Requests : \A b \in books :
          (/\ CheckStep(r)
           /\ b.title = req[r].body.book_title
           /\ b.author = req[r].body.book_author
           /\ ReviewByUserBook(req[r].user, b.id) # {})
          => /\ req'[r].pc = "done"
             /\ req'[r].response.status = 400
             /\ Cardinality(ReviewByUserBook(req[r].user, b.id)) = 1
             /\ reviews' = reviews]_vars

\* C3 witness: a create_review was refused because the user had reviewed
\* the book, and the pair has its one review.
C3_Witness ==
    \E r \in Requests :
        /\ CreateDone(r)
        /\ req[r].response = HTTPException(400, "You have already reviewed this book.")
        /\ Cardinality(ReviewByUserBook(req[r].user, req[r].book)) = 1

\* the body passes every check of create_review and names a book
ValidCreate(review_data) ==
    /\ ReviewBaseValid(review_data)
    /\ ~CreateReviewInvalid(review_data)
    /\ TextLen(review_data.review_text) <= 1000
    /\ BookByTitleAuthor(review_data.book_title, review_data.book_author) # {}

\* C4: a valid create_review request of an authenticated user, for a pair
\* no other request is for and that has no prior review, gets 200 and its
\* review is stored, however the requests interleave.
C4_IndependentPairs ==
    \A r \in Requests :
        (/\ CreateDone(r) /\ req[r].user # 0
         /\ ValidCreate(req[r].body)
         /\ \A t \in Requests \ {r} : ~SameUserBook(r, t))
        => /\ req[r].response.status = 200
           /\ \E x \in reviews :
                 /\ x.id = req[r].response.body.id
                 /\ x.user_id = req[r].user
                 /\ x.book_id = req[r].book

\* C4 witness: two create_review requests for different pairs have both
\* got 200 and both reviews are stored.
C4_Witness ==
    \E r, t \in Requests :
        /\ r # t /\ ~SameUserBook(r, t)
        /\ CreateDone(r) /\ CreateDone(t)
        /\ req[r].response.status = 200 /\ req[t].response.status = 200
        /\ Cardinality(reviews) = 2


\* the step is the arrival of request r, a request of kind op
StartStep(r, op) == req[r].pc = "idle" /\ req'[r].op = op

\* C5: a create_review request whose token is malformed or tampered,
\* expired, without a subject or of no registered user gets the one 401
\* response, whatever its body, and no review is inserted.
C5_Unauthenticated ==
    [][\A r \in Requests :
          (StartStep(r, "create_review") /\ req'[r].token \in RejectedTokens)
          => /\ req'[r].pc = "done"
             /\ req'[r].response = HTTPException(401, "Invalid authentication token")
             /\ reviews' = reviews]_vars

\* C5 witness: a request with a well-signed token of no registered user
\* and a body that passes every check got 401, and no review is stored.
C5_Witness ==
    \E r \in Requests :
        /\ CreateDone(r)
        /\ req[r].token.key = SECRET_KEY /\ req[r].token.sub = "mallory@example.com"
        /\ ValidCreate(req[r].body)
        /\ req[r].response.status = 401
        /\ reviews = {}

\* C6: a token login issues at time t expires at t + 3000 minutes; a
\* request that presents it before then is authenticated as its user, one
\* that presents it later gets 401, and an expired token stays expired.
C6_TokenLifetime ==
    [][\A r \in Requests :
          /\ (StartStep(r, "login") /\ req'[r].response.status = 200)
             => req'[r].response.body.access_token =
                    Token(SECRET_KEY, req'[r].body.email,
                          now + ACCESS_TOKEN_EXPIRE_MINUTES)
          /\ \A token \in IssuedTokens :
                /\ (StartStep(r, "create_review") /\ req'[r].token = token)
                   => /\ now < token.exp
                         => \E u \in users : /\ u.email = token.sub
                                             /\ req'[r].user = u.id
                                             /\ req'[r].response.status # 401
                      /\ now > token.exp
                         => /\ req'[r].user = 0
                            /\ req'[r].response.status = 401
                /\ now >= token.exp => now' >= token.exp]_vars

\* C6 witness: one issued token has authenticated a request and, later,
\* was refused.
C6_Witness ==
    \E r, t \in Requests : \E token \in IssuedTokens :
        /\ CreateDone(r) /\ req[r].token = token /\ req[r].response.status = 200
        /\ CreateDone(t) /\ req[t].token = token /\ req[t].response.status = 401
        /\ now > token.exp

\* a user with this email registered with this password
RegisteredWith(email, password) ==
    \E u \in users : u.email = email /\ u.password_hash.digest[1] = password

\* C7: login returns 200 and a bearer token whose subject is the email
\* exactly when the email is a registered user's and the password is that
\* user's; otherwise it returns 401 and no token.  After a successful
\* register(username, email, password), login(email, password) succeeds.
C7_Login ==
    [][\A r \in Requests :
          (StartStep(r, "login") /\ EmailStrValid(req'[r].body.email))
          => LET q == req'[r] IN
             /\ q.pc = "done"
             /\ IF RegisteredWith(q.body.email, q.body.password)
                THEN /\ q.response.status = 200
                     /\ q.response.body.token_type = "bearer"
                     /\ q.response.body.access_token.key = SECRET_KEY
                     /\ q.response.body.access_token.sub = q.body.email
                ELSE q.response = HTTPException(401, "Invalid credentials")
             /\ \A t \in Requests :
                   (/\ req[t].op = "register" /\ req[t].response.status = 200
                    /\ req[t].body.email = q.body.email
                    /\ req[t].body.password = q.body.password)
                   => q.response.status = 200]_vars

\* C7 witness: a user has registered and logged in with the registered
\* password, and a login with another password was refused.
C7_Witness ==
    \E r, t, u \in Requests :
        /\ req[r].op = "register" /\ req[r].response.status = 200
        /\ req[t].op = "login" /\ req[t].response.status = 200
        /\ req[t].body.email = req[r].body.email
        /\ req[t].response.body.access_token.sub = req[r].body.email
        /\ req[u].op = "login" /\ req[u].response.status = 401
        /\ req[u].body.email = req[r].body.email

\* no two stored users share an email or a username
UsersUnique ==
    \A u, v \in users : (u.email = v.email \/ u.username = v.username) => u = v

\* C8: register with an email of a stored user fails with 400 and adds no
\* user; no two stored users share an email or a username.
C8_Register ==
    /\ []UsersUnique
    /\ [][\A r \in Requests :
             (/\ StartStep(r, "register")
              /\ \E u \in users : u.email = req'[r].body.email)
             => /\ req'[r].pc = "done"
                /\ req'[r].response.status = 400
                /\ users' = users]_vars

\* C8 witness: a user was added, a register with that user's email was
\* refused with 400, and a register with a taken username was refused by
\* the database.
C8_Witness ==
    \E r, t, u \in Requests :
        /\ req[r].op = "register" /\ req[r].response.status = 200
        /\ req[t].op = "register" /\ req[t].response.status = 400
        /\ req[t].body.email = req[r].body.email
        /\ req[u].op = "register" /\ req[u].response.status = 500
        /\ Cardinality(users) = 3


\* the review text is non-empty, of at most 1000 characters, and holds
\* none of `drop table`, `delete from`, `--` in any letter case
ValidText(text) ==
    /\ TextLen(text) > 0
    /\ TextLen(text) <= 1000
    /\ \A x \in {"drop table", "delete from", "--"} :
          ~TextContains(x, TextLower(text))

\* C9: for an authenticated user, a (title, author) pair of an existing
\* book, a valid text and no prior review of the book by the user,
\* create_review succeeds and stores exactly one new review: its user_id is
\* the authenticated user, its book_id the book, its sentiment one of
\* positive, negative, neutral (neutral for any other classifier label).
C9_CreateSucceeds ==
    [][\A r \in Requests : \A b \in books :
          (/\ req[r].op = "create_review"
           /\ b.title = req[r].body.book_title
           /\ b.author = req[r].body.book_author
           /\ ValidText(req[r].body.review_text))
          => /\ (CheckStep(r) /\ ReviewByUserBook(req[r].user, b.id) = {})
                => req'[r].pc = "commit"
             /\ CommitStep(r)
                => /\ req'[r].response.status = 200
                   /\ \E x \in reviews' \ reviews :
                         /\ reviews' = reviews \cup {x}
                         /\ \E u \in users : u.email = req[r].token.sub /\ x.user_id = u.id
                         /\ x.book_id = b.id
                         /\ x.review_text = req[r].body.review_text
                         /\ x.sentiment \in {"positive", "negative", "neutral"}
                         /\ sentiment_model(x.review_text) \notin {"POSITIVE", "NEGATIVE"}
                            => x.sentiment = "neutral"
                         /\ req'[r].response.body.id = x.id]_vars

\* C9 witness: a review whose classifier label is neither positive nor
\* negative was created with 200 and is stored as neutral.
C9_Witness ==
    \E r \in Requests : \E x \in reviews :
        /\ CreateDone(r) /\ req[r].response.status = 200
        /\ x.id = req[r].response.body.id
        /\ x.user_id = req[r].user
        /\ ValidText(x.review_text)
        /\ sentiment_model(x.review_text) = "LABEL_2"
        /\ x.sentiment = "neutral"

\* C10: every authenticated create_review request whose review_text is
\* longer than 1000 characters fails with 400, whatever its other fields,
\* and no such text is stored.
C10_TooLong400 ==
    /\ \A r \in Requests :
          (/\ CreateDone(r) /\ req[r].user # 0
           /\ TextLen(req[r].body.review_text) > 1000)
          => req[r].response.status = 400
    /\ \A x \in reviews : TextLen(x.review_text) <= 1000

\* C11: an authenticated create_review request whose review_text, book_title
\* or book_author is empty gets 400, and no review with an empty text is
\* stored.
C11_EmptyFields400 ==
    /\ \A r \in Requests :
          (/\ CreateDone(r) /\ req[r].user # 0
           /\ \/ TextLen(req[r].body.review_text) = 0
              \/ Len(req[r].body.book_title) = 0
              \/ Len(req[r].body.book_author) = 0)
          => req[r].response.status = 400
    /\ \A x \in reviews : TextLen(x.review_text) # 0

\* the text holds one of the spec's denied substrings, in any letter case
DeniedText(text) ==
    \E x \in {"drop table", "delete from", "--"} : TextContains(x, TextLower(text))

\* C12: an authenticated create_review request whose review_text holds
\* `drop table`, `delete from` or `--`, in any letter case, gets 400, and no
\* such text is stored.
C12_Denylist400 ==
    /\ \A r \in Requests :
          (CreateDone(r) /\ req[r].user # 0 /\ DeniedText(req[r].body.review_text))
          => req[r].response.status = 400
    /\ \A x \in reviews : ~DeniedText(x.review_text)

\* every stored review is a whole row: it has an id of its own, a stored
\* user, a stored book and one of the three sentiments
ReviewsWhole ==
    \A x \in reviews :
        /\ \A y \in reviews : x.id = y.id => x = y
        /\ \E u \in users : u.id = x.user_id
        /\ \E b \in books : b.id = x.book_id
        /\ x.sentiment \in {"positive", "negative", "neutral"}

\* C13: no step of a create_review request changes users, books or
\* reviews unless it is the step that answers 200, so a request that ends
\* in 400, 404 or 401 leaves the three tables as they were; every stored
\* review is a whole row.
C13_ErrorsLeaveTables ==
    /\ []ReviewsWhole
    /\ [][\A r \in Requests :
             (/\ req'[r] # req[r]
              /\ req'[r].op = "create_review"
              /\ \/ req'[r].pc # "done"
                 \/ req'[r].response.status \in {400, 401, 404})
             => UNCHANGED <<users, books, reviews>>]_vars

\* C13 witness: with one review stored, a create_review request for a pair
\* of no book ended in 404, and the one review is what is stored.
C13_Witness ==
    \E r \in Requests :
        /\ CreateDone(r) /\ req[r].user # 0
        /\ req[r].response = HTTPException(404, "Book not found")
        /\ Cardinality(reviews) = 1

\* request r is a request of kind op that has its response
ReadDone(r, op) == req[r].op = op /\ req[r].pc = "done"

\* the number of stored reviews of the book that are positive and were
\* created at or after now - 7 days
QualifyingCount(book_id) ==
    Cardinality({x \in reviews : /\ x.book_id = book_id
                                 /\ x.sentiment = "positive"
                                 /\ x.created_at >= now - Week})

\* the books with at least one such review
QualifyingBooks == {b \in books : QualifyingCount(b.id) > 0}

\* C14: for every count n, a successful trending_books(n) returns at most n
\* entries, and every returned book has at least one positive review from
\* the last 7 days.
C14_TrendingAtMostN ==
    \A r \in Requests :
        (ReadDone(r, "get_trending_books") /\ req[r].response.status = 200)
        => LET list == req[r].response.body.list IN
           /\ Len(list) <= req[r].body.count
           /\ \A i \in 1..Len(list) : \E b \in QualifyingBooks : b.id = list[i].id

\* C15: a successful trending_books(count) lists books by non-increasing
\* review_count, each review_count is the book's number of qualifying
\* reviews, no book is listed twice, and with k qualifying books (k > 0) and
\* a count >= 0 the request succeeds and lists min(count, k) books, none of
\* which has fewer qualifying reviews than a qualifying book left out.
C15_TrendingTop ==
    \A r \in Requests :
        ReadDone(r, "get_trending_books")
        => LET count == req[r].body.count
               k == Cardinality(QualifyingBooks) IN
           /\ k > 0 => req[r].response.status = 200
           /\ req[r].response.status = 200
              => LET list == req[r].response.body.list
                     listed == {list[i].id : i \in 1..Len(list)} IN
                 /\ \A i, j \in 1..Len(list) :
                       /\ i < j => list[i].review_count >= list[j].review_count
                       /\ i # j => list[i].id # list[j].id
                 /\ \A i \in 1..Len(list) :
                       /\ list[i].review_count = QualifyingCount(list[i].id)
                       /\ \E b \in QualifyingBooks :
                             list[i] = BookResponse(b.id, b.title, b.author,
                                                    QualifyingCount(b.id))
                 /\ count >= 0 => Len(list) = IF count < k THEN count ELSE k
                 /\ \A b \in QualifyingBooks :
                       b.id \notin listed
                       => \A i \in 1..Len(list) :
                             list[i].review_count >= QualifyingCount(b.id)

\* C15 witness: of three qualifying books, one with two qualifying reviews
\* and two with one, trending_books(2) has listed the book with two and then
\* one of the others.
C15_Witness ==
    \E r \in Requests :
        /\ ReadDone(r, "get_trending_books") /\ req[r].response.status = 200
        /\ req[r].body.count = 2
        /\ Cardinality(QualifyingBooks) = 3
        /\ Len(req[r].response.body.list) = 2
        /\ req[r].response.body.list[1].review_count = 2
        /\ req[r].response.body.list[2].review_count = 1

\* C16: trending_books answers 200 with an empty list whenever a book
\* exists and no book has a qualifying review, and answers 404 only when
\* the books table is empty.
C16_TrendingEmptyList ==
    \A r \in Requests :
        ReadDone(r, "get_trending_books")
        => /\ (books # {} /\ QualifyingBooks = {})
              => req[r].response = Response(200, "", ListBody(<<>>))
           /\ req[r].response.status = 404 => books = {}

\* review a comes no later than review b in the order of list_reviews_grouped:
\* positive, then negative, then the rest; newer first within one sentiment
OrderedBefore(a, b) ==
    /\ b.sentiment = "positive" => a.sentiment = "positive"
    /\ b.sentiment = "negative" => a.sentiment \in {"positive", "negative"}
    /\ a.sentiment = b.sentiment => a.created_at >= b.created_at

\* C17: in every group of a list_reviews_grouped result, a positive review
\* precedes every negative or neutral one, a negative review precedes every
\* neutral one, and reviews of one sentiment are in created_at descending
\* order.
C17_GroupedOrder ==
    \A r \in Requests :
        (ReadDone(r, "get_reviews") /\ req[r].response.status = 200)
        => LET list == req[r].response.body.list IN
           \A g \in 1..Len(list) :
               \A i, j \in 1..Len(list[g].reviews) :
                   i < j => OrderedBefore(list[g].reviews[i], list[g].reviews[j])

\* C17 witness: one group lists a positive review older than a week before
\* a neutral review of now, another lists two positive reviews, the newer
\* first.
C17_Witness ==
    \E r \in Requests :
        /\ ReadDone(r, "get_reviews") /\ req[r].response.status = 200
        /\ LET list == req[r].response.body.list IN
           \E g, h \in 1..Len(list) :
               /\ Len(list[g].reviews) = 2
               /\ list[g].reviews[1].sentiment = "positive"
               /\ list[g].reviews[1].created_at = ReadOld
               /\ list[g].reviews[2].sentiment = "neutral"
               /\ list[g].reviews[2].created_at = ReadNow
               /\ Len(list[h].reviews) = 2
               /\ list[h].reviews[1].sentiment = "positive"
               /\ list[h].reviews[2].sentiment = "positive"
               /\ list[h].reviews[1].created_at > list[h].reviews[2].created_at

C19_ListForBook ==
    [][\A r \in Requests :
          StartStep(r, "get_reviews_by_book")
          => LET response == req'[r].response
                 of_book == {x \in reviews : x.book_id = req'[r].body.book_id} IN
             /\ req'[r].pc = "done"
             /\ UNCHANGED <<users, books, reviews>>
             /\ of_book = {}
                => response = HTTPException(404, "No reviews found for this book")
             /\ of_book # {}
                => /\ response.status = 200
                   /\ Len(response.body.list) = Cardinality(of_book)
                   /\ {response.body.list[i] : i \in 1..Len(response.body.list)} =
                         {ReviewResponseGrouped(x) : x \in of_book}]_vars

\* C19 witness: with reviews of other books stored, the two reviews of one
\* book were listed.
C19_Witness ==
    \E r \in Requests :
        /\ ReadDone(r, "get_reviews_by_book") /\ req[r].response.status = 200
        /\ Len(req[r].response.body.list) = 2
        /\ Cardinality(reviews) > 2
        /\ \A i \in 1..2 : \E x \in reviews :
              /\ x.book_id = req[r].body.book_id
              /\ req[r].response.body.list[i] = ReviewResponseGrouped(x)

\* C20: an authenticated update_review that names a stored review and the
\* (title, author) of an existing book other than the review's book answers
\* 200, and afterwards the review has the new book_id, the supplied text,
\* the sentiment of the supplied text and its old user_id.
C20_UpdateMoves ==
    [][\A r \in Requests : \A x \in reviews : \A b \in books :
          (/\ StartStep(r, "update_review") /\ req'[r].user # 0
           /\ x.id = req'[r].body.id
           /\ b.title = req'[r].body.book_title
           /\ b.author = req'[r].body.book_author
           /\ b.id # x.book_id)
          => /\ req'[r].response.status = 200
             /\ \E y \in reviews' :
                   /\ y.id = x.id
                   /\ y.book_id = b.id
                   /\ y.review_text = req'[r].body.review_text
                   /\ y.sentiment = analyze_sentiment(req'[r].body.review_text)
                   /\ y.user_id = x.user_id]_vars

\* C21: an authenticated update_review whose review_text is longer than
\* 1000 characters gets 400, whatever its other fields, and no stored review
\* has such a text.
C21_UpdateTooLong400 ==
    /\ \A r \in Requests :
          (/\ ReadDone(r, "update_review") /\ req[r].user # 0
           /\ TextLen(req[r].body.review_text) > 1000)
          => req[r].response.status = 400
    /\ \A x \in reviews : TextLen(x.review_text) <= 1000

=============================================================================
